---- MODULE Spec2Model ----
(* Model of the inventory service of main.js: the inventory table held in    *)
(* Postgres, the uploads directory written by multer, and the HTTP handlers  *)
(* that couple the two.  Every handler is cut at its awaits: one action per  *)
(* store call together with the synchronous code that follows or precedes    *)
(* it, so that concurrent requests interleave exactly where Node lets them.  *)
EXTENDS Integers, FiniteSets, Sequences, TLC

(***************************************************************************)
(* Bounds of the model.                                                    *)
(***************************************************************************)
MaxId == 1
MaxClock == 2

Procs == {1, 2}
OrigNames == {1}
NumOrig == Cardinality(OrigNames)
NameVals == {"X"}
DescVals == {}
\* The text values of the requests of SpecText.
TextNames == {"X", "Y"}
TextDescs == {"d"}

(***************************************************************************)
(* Values.                                                                 *)
(***************************************************************************)
Null == 0
Absent == "absent"
SqlNull == "NULL"
Ids == 1..MaxId
NameInputs == NameVals \cup {"", Absent}
DescInputs == DescVals \cup {"", Absent}
TextNameInputs == TextNames \cup {"", Absent}
TextDescInputs == TextDescs \cup {"", Absent}

\* `${Date.now()}_${file.originalname}`: the name is made of the clock value
\* and the client's file name, and of nothing else.
FileName(now, originalname) == now * NumOrig + originalname

\* The bytes of an attachment.  Each client connection sends a payload of
\* its own, so that the bytes of two connections can be told apart.
Payload(p) == p

\* A test that takes only undefined for a missing field.
MissingOnly(x) == x = Absent
\* JavaScript `!x` on a body field: undefined and the empty string are falsy.
Falsy(x) == x = Absent \/ x = ""
\* JavaScript `x || null` on a body field, as bound to a query parameter.
OrNull(x) == IF Falsy(x) THEN SqlNull ELSE x
\* SQL COALESCE($1, old).
Coalesce(x, old) == IF x = SqlNull THEN old ELSE x

VARIABLES table, nextId, files, clock, req

vars == <<table, nextId, files, clock, req>>

IdleReq == [op |-> "none", pc |-> "idle", id |-> 0, file |-> Null, data |-> 0,
            old |-> Null, found |-> FALSE, status |-> 0, body |-> "",
            fault |-> "none", quiet |-> TRUE, last |-> FALSE,
            name |-> Absent, desc |-> Absent, added |-> FALSE]

Init ==
    /\ table = << >>
    /\ nextId = 1
    /\ files = << >>
    /\ clock = 0
    /\ req = [p \in Procs |-> IdleReq]

(***************************************************************************)
(* Helpers.                                                                *)
(***************************************************************************)
Mutating == {"register", "update", "putPhoto", "delete"}
Active(q) == req[q].pc \notin {"idle", "done"}

\* fs.existsSync(path.join(uploadDir, f))
ExistsSync(f) == f \in DOMAIN files

\* fs.unlinkSync
Unlinked(f) == [g \in DOMAIN files \ {f} |-> files[g]]

\* multer's disk storage opens the destination for writing: an existing file
\* of that name is replaced.
Stored(f, b) == [g \in DOMAIN files \cup {f} |-> IF g = f THEN b ELSE files[g]]

\* res.status(s).send(b) or .json(row), which ends the request.
Respond(r, s, b) == [r EXCEPT !.pc = "done", !.status = s, !.body = b]

\* catch (err) { res.status(500).send("DB error") }
Fail(r, at) == [Respond(r, 500, "DB error") EXCEPT !.fault = at]

\* Fields of a request that only observe it: fault is the step that failed,
\* quiet tells that no other mutating request has worked on the same id since
\* the request arrived, last that the request's UPDATE of photo is the latest
\* on its row, name and desc are the body fields of a request answered 200 or
\* 201, and added tells, until the handler has passed its early returns, that
\* the request's upload put a new name into the uploads directory.

\* Request p moves to r.  When p is a step of a mutating request on id i,
\* every other request on i stops being quiet.
Step(p, i, r) ==
    [q \in Procs |->
        IF q = p THEN r
        ELSE IF req[q].pc # "idle" /\ req[q].id = i /\ i # 0
             THEN [req[q] EXCEPT !.quiet = FALSE]
             ELSE req[q]]

\* Request p has executed the UPDATE of photo on row i: it is now the last one
\* to have done so.
Swapped(p, i, r) ==
    [q \in Procs |->
        IF q = p THEN [r EXCEPT !.last = TRUE]
        ELSE IF req[q].id = i
             THEN [Step(p, i, r)[q] EXCEPT !.last = FALSE]
             ELSE req[q]]

\* A request on id i arrives while another mutating request on i is in flight.
Overlaps(p, i) ==
    /\ i # 0
    /\ \E q \in Procs \ {p} : Active(q) /\ req[q].op \in Mutating /\ req[q].id = i

Begin(p, op, i) ==
    [IdleReq EXCEPT !.op = op, !.id = i, !.quiet = ~Overlaps(p, i)]


(***************************************************************************)
(* The clock read by Date.now() and by the table's DEFAULT now().          *)
(***************************************************************************)
Tick ==
    /\ clock < MaxClock
    /\ clock' = clock + 1
    /\ UNCHANGED <<table, nextId, files, req>>

(***************************************************************************)
(* POST /register                                                          *)
(***************************************************************************)
\* upload.single("photo"): the attachment, if any, is written under its
\* generated name before the handler runs.
RegisterUpload(p) ==
    /\ req[p].pc = "idle"
    /\ \/ /\ req' = Step(p, 0, [Begin(p, "register", 0) EXCEPT !.pc = "insert"])
          /\ UNCHANGED files
       \/ \E o \in OrigNames, b \in {Payload(p)} :
            LET f == FileName(clock, o) IN
            /\ files' = Stored(f, b)
            /\ req' = Step(p, 0, [Begin(p, "register", 0) EXCEPT
                                    !.pc = "insert", !.file = f, !.data = b,
                                    !.added = ~ExistsSync(f)])
       \/ /\ req' = Step(p, 0, Fail(Begin(p, "register", 0), "upload"))
          /\ UNCHANGED files
    /\ UNCHANGED <<table, nextId, clock>>

\* The handler: the name check, then the INSERT and the 201 answer.  The
\* serial column hands out ids up to MaxId.
RegisterInsertWith(p, inventory_name, description) ==
    /\ req[p].pc = "insert"
    /\   LET r == [req[p] EXCEPT !.added = FALSE] IN
         IF Falsy(inventory_name)
         THEN /\ req' = Step(p, 0, Respond(req[p], 400, "Bad Request"))
              /\ UNCHANGED <<table, nextId>>
         ELSE \/ /\ req' = Step(p, 0, Fail(r, "write"))
                 /\ UNCHANGED <<table, nextId>>
              \/ nextId <= MaxId /\
                 LET row == [name |-> inventory_name,
                             description |-> OrNull(description),
                             photo |-> req[p].file,
                             created_at |-> clock] IN
                 /\ table' = [i \in DOMAIN table \cup {nextId} |->
                                IF i = nextId THEN row ELSE table[i]]
                 /\ nextId' = nextId + 1
                 /\ req' = Step(p, nextId,
                                Respond([r EXCEPT !.id = nextId,
                                                  !.name = inventory_name,
                                                  !.desc = description,
                                                  !.quiet = ~Overlaps(p, nextId)],
                                        201, "row"))
    /\ UNCHANGED <<files, clock>>

RegisterInsert(p) ==
    \E inventory_name \in NameInputs, description \in DescInputs :
        RegisterInsertWith(p, inventory_name, description)

(***************************************************************************)
(* GET /inventory/:id                                                      *)
(***************************************************************************)
GetItem(p) ==
    /\ req[p].pc = "idle"
    /\ \E id \in Ids :
         LET r == Begin(p, "getItem", id) IN
         \/ req' = Step(p, 0, Fail(r, "select"))
         \/ /\ id \notin DOMAIN table
            /\ req' = Step(p, 0, Respond(r, 404, "Not Found"))
         \/ /\ id \in DOMAIN table
            /\ req' = Step(p, 0, Respond([r EXCEPT !.found = TRUE,
                                                    !.old = table[id].photo],
                                         200, "row"))
    /\ UNCHANGED <<table, nextId, files, clock>>

(***************************************************************************)
(* PUT /inventory/:id                                                      *)
(***************************************************************************)
UpdateSelect(p) ==
    /\ req[p].pc = "idle"
    /\ \E id \in Ids :
         LET r == Begin(p, "update", id) IN
         \/ req' = Step(p, id, Fail(r, "select"))
         \/ /\ id \notin DOMAIN table
            /\ req' = Step(p, id, Respond(r, 404, "Not Found"))
         \/ /\ id \in DOMAIN table
            /\ req' = Step(p, id, [r EXCEPT !.pc = "update", !.found = TRUE])
    /\ UNCHANGED <<table, nextId, files, clock>>

\* UPDATE ... SET name = COALESCE($1, name), description = COALESCE($2,
\* description) WHERE id=$3 RETURNING ..., answered with rows[0].
\* The same UPDATE without COALESCE: an omitted field is set to NULL.
UpdatedRowNullOnOmit(row, inventory_name, description) ==
    [row EXCEPT !.name = OrNull(inventory_name),
                !.description = OrNull(description)]

\* The same UPDATE when it also clears photo and sets created_at anew.
UpdatedRowTouchesAll(row, inventory_name, description) ==
    [row EXCEPT !.name = Coalesce(OrNull(inventory_name), @),
                !.description = Coalesce(OrNull(description), @),
                !.photo = Null,
                !.created_at = clock]

UpdatedRow(row, inventory_name, description) ==
    [row EXCEPT !.name = Coalesce(OrNull(inventory_name), @),
                !.description = Coalesce(OrNull(description), @)]

UpdateApplyWith(p, inventory_name, description) ==
    /\ req[p].pc = "update"
    /\ req[p].op = "update"
    /\   LET id == req[p].id
             r == [req[p] EXCEPT !.name = inventory_name, !.desc = description] IN
         \/ /\ req' = Step(p, id, Fail(req[p], "write"))
            /\ UNCHANGED table
         \/ /\ id \in DOMAIN table
            /\ LET row == UpdatedRow(table[id], inventory_name, description) IN
               /\ table' = [table EXCEPT ![id] = row]
               /\ req' = Step(p, id, Respond(r, 200, "row"))
         \/ /\ id \notin DOMAIN table
            /\ req' = Step(p, id, Respond(req[p], 200, "undefined"))
            /\ UNCHANGED table
    /\ UNCHANGED <<nextId, files, clock>>

UpdateApply(p) ==
    \E inventory_name \in NameInputs, description \in DescInputs :
        UpdateApplyWith(p, inventory_name, description)

(***************************************************************************)
(* GET /inventory/:id/photo                                                *)
(***************************************************************************)
NotFoundBody == "Not Found"
\* The answer for a row whose photo column is null.
NoPhotoBodySameAsNotFound == "Not Found"
NoPhotoBody == "Photo Not Found"
\* The answer for a row whose photo names a file that existsSync does not find.
MissingFileBody == "Photo Not Found"

\* What the handler answers once the SELECT has returned the name photo:
\* existsSync, then sendFile.
SendFile(photo) ==
    IF ExistsSync(photo)
    THEN [status |-> 200, body |-> "file", data |-> files[photo]]
    ELSE [status |-> 404, body |-> MissingFileBody, data |-> 0]

\* The whole handler run against the current table and directory.
FetchAsset(id) ==
    IF id \notin DOMAIN table
    THEN [status |-> 404, body |-> NotFoundBody, data |-> 0]
    ELSE IF table[id].photo = Null
         THEN [status |-> 404, body |-> NoPhotoBody, data |-> 0]
         ELSE SendFile(table[id].photo)

FetchSelect(p) ==
    /\ req[p].pc = "idle"
    /\ \E id \in Ids :
         LET r == Begin(p, "getPhoto", id) IN
         \/ req' = Step(p, 0, Fail(r, "select"))
         \/ /\ id \notin DOMAIN table
            /\ req' = Step(p, 0, Respond(r, 404, NotFoundBody))
         \/ /\ id \in DOMAIN table
            /\ LET photo == table[id].photo
                   s == [r EXCEPT !.found = TRUE, !.old = photo] IN
               IF photo = Null
               THEN req' = Step(p, 0, Respond(s, 404, NoPhotoBody))
               ELSE req' = Step(p, 0, [s EXCEPT !.pc = "send"])
    /\ UNCHANGED <<table, nextId, files, clock>>

\* existsSync on the selected name, then sendFile.
FetchSend(p) ==
    /\ req[p].pc = "send"
    /\ LET out == SendFile(req[p].old) IN
       req' = Step(p, 0, Respond([req[p] EXCEPT !.data = out.data],
                                 out.status, out.body))
    /\ UNCHANGED <<table, nextId, files, clock>>

(***************************************************************************)
(* PUT /inventory/:id/photo                                                *)
(***************************************************************************)
PhotoUpload(p) ==
    /\ req[p].pc = "idle"
    /\ \E id \in Ids :
         LET r == Begin(p, "putPhoto", id) IN
         \/ /\ req' = Step(p, id, [r EXCEPT !.pc = "select"])
            /\ UNCHANGED files
         \/ \E o \in OrigNames, b \in {Payload(p)} :
              LET f == FileName(clock, o) IN
              /\ files' = Stored(f, b)
              /\ req' = Step(p, id, [r EXCEPT !.pc = "select", !.file = f, !.data = b,
                                              !.added = ~ExistsSync(f)])
         \/ /\ req' = Step(p, id, Fail(r, "upload"))
            /\ UNCHANGED files
    /\ UNCHANGED <<table, nextId, clock>>

\* SELECT photo ... and the two early returns that depend on its result.
PhotoSelect(p) ==
    /\ req[p].pc = "select"
    /\ req[p].op = "putPhoto"
    /\ LET id == req[p].id IN
       \/ req' = Step(p, id, Fail([req[p] EXCEPT !.added = FALSE], "select"))
       \/ /\ id \notin DOMAIN table
          /\ req' = Step(p, id, Respond(req[p], 404, NotFoundBody))
       \/ /\ id \in DOMAIN table
          /\ IF req[p].file = Null
             THEN req' = Step(p, id, Respond([req[p] EXCEPT !.found = TRUE],
                                             400, "Bad Request"))
             ELSE req' = Step(p, id, [req[p] EXCEPT !.pc = "unlink", !.found = TRUE,
                                                    !.old = table[id].photo,
                                                    !.added = FALSE])
    /\ UNCHANGED <<table, nextId, files, clock>>

\* if (oldPhoto) { if (fs.existsSync(oldPath)) fs.unlinkSync(oldPath); }
\* and the UPDATE is sent.
PhotoUnlink(p) ==
    /\ req[p].pc = "unlink"
    /\ req[p].op = "putPhoto"
    /\ LET id == req[p].id
           oldPhoto == req[p].old IN
       IF oldPhoto # Null /\ ExistsSync(oldPhoto)
       THEN \/ /\ files' = Unlinked(oldPhoto)
               /\ req' = Step(p, id, [req[p] EXCEPT !.pc = "swap"])
            \/ /\ req' = Step(p, id, Fail(req[p], "unlink"))
               /\ UNCHANGED files
       ELSE /\ req' = Step(p, id, [req[p] EXCEPT !.pc = "swap"])
            /\ UNCHANGED files
    /\ UNCHANGED <<table, nextId, clock>>

\* UPDATE inventory SET photo=$1 WHERE id=$2 RETURNING ..., answered with rows[0].
PhotoUpdate(p) ==
    /\ req[p].pc = "swap"
    /\ LET id == req[p].id IN
       \/ /\ req' = Step(p, id, Fail(req[p], "write"))
          /\ UNCHANGED table
       \/ /\ id \in DOMAIN table
          /\ LET row == [table[id] EXCEPT !.photo = req[p].file] IN
             /\ table' = [table EXCEPT ![id] = row]
             /\ req' = Swapped(p, id, Respond(req[p], 200, "row"))
       \/ /\ id \notin DOMAIN table
          /\ req' = Step(p, id, Respond(req[p], 200, "undefined"))
          /\ UNCHANGED table
    /\ UNCHANGED <<nextId, files, clock>>

(***************************************************************************)
(* DELETE /inventory/:id                                                   *)
(***************************************************************************)
\* The handler without its early return for an id that has no row.
DeleteSelectUnchecked(p) ==
    /\ req[p].pc = "idle"
    /\ \E id \in Ids :
         LET r == Begin(p, "delete", id) IN
         \/ req' = Step(p, id, Fail(r, "select"))
         \/ req' = Step(p, id, [r EXCEPT !.pc = "unlink",
                                         !.found = id \in DOMAIN table,
                                         !.old = IF id \in DOMAIN table
                                                 THEN table[id].photo ELSE Null])
    /\ UNCHANGED <<table, nextId, files, clock>>

DeleteSelect(p) ==
    /\ req[p].pc = "idle"
    /\ \E id \in Ids :
         LET r == Begin(p, "delete", id) IN
         \/ req' = Step(p, id, Fail(r, "select"))
         \/ /\ id \notin DOMAIN table
            /\ req' = Step(p, id, Respond(r, 404, NotFoundBody))
         \/ /\ id \in DOMAIN table
            /\ req' = Step(p, id, [r EXCEPT !.pc = "unlink", !.found = TRUE,
                                            !.old = table[id].photo])
    /\ UNCHANGED <<table, nextId, files, clock>>

\* if (photo) { if (fs.existsSync(photoPath)) fs.unlinkSync(photoPath); }
\* and the DELETE is sent.
DeleteUnlink(p) ==
    /\ req[p].pc = "unlink"
    /\ req[p].op = "delete"
    /\ LET id == req[p].id
           photo == req[p].old IN
       IF photo # Null /\ ExistsSync(photo)
       THEN \/ /\ files' = Unlinked(photo)
               /\ req' = Step(p, id, [req[p] EXCEPT !.pc = "remove"])
            \/ /\ req' = Step(p, id, Fail(req[p], "unlink"))
               /\ UNCHANGED files
       ELSE /\ req' = Step(p, id, [req[p] EXCEPT !.pc = "remove"])
            /\ UNCHANGED files
    /\ UNCHANGED <<table, nextId, clock>>

\* DELETE FROM inventory WHERE id=$1, then 200.
DeleteRow(p) ==
    /\ req[p].pc = "remove"
    /\ LET id == req[p].id IN
       \/ /\ req' = Step(p, id, Fail(req[p], "write"))
          /\ UNCHANGED table
       \/ /\ table' = [i \in DOMAIN table \ {id} |-> table[i]]
          /\ req' = Step(p, id, Respond(req[p], 200, "Deleted successfully"))
    /\ UNCHANGED <<nextId, files, clock>>

(***************************************************************************)
(* The client has its answer; the slot takes the next request.             *)
(***************************************************************************)
Finish(p) ==
    /\ req[p].pc = "done"
    /\ req' = [req EXCEPT ![p] = IdleReq]
    /\ UNCHANGED <<table, nextId, files, clock>>

Next ==
    \/ Tick
    \/ \E p \in Procs : RegisterUpload(p)
    \/ \E p \in Procs : RegisterInsert(p)
    \/ \E p \in Procs : GetItem(p)
    \/ \E p \in Procs : UpdateSelect(p)
    \/ \E p \in Procs : UpdateApply(p)
    \/ \E p \in Procs : FetchSelect(p)
    \/ \E p \in Procs : FetchSend(p)
    \/ \E p \in Procs : PhotoUpload(p)
    \/ \E p \in Procs : PhotoSelect(p)
    \/ \E p \in Procs : PhotoUnlink(p)
    \/ \E p \in Procs : PhotoUpdate(p)
    \/ \E p \in Procs : DeleteSelect(p)
    \/ \E p \in Procs : DeleteUnlink(p)
    \/ \E p \in Procs : DeleteRow(p)
    \/ \E p \in Procs : Finish(p)

Spec == Init /\ [][Next]_vars

(***************************************************************************)
(* The same service under requests that leave the photo routes alone and   *)
(* draw their text fields from the larger sets.                            *)
(***************************************************************************)
RegisterText(p) ==
    \E inventory_name \in TextNameInputs, description \in TextDescInputs :
        RegisterInsertWith(p, inventory_name, description)

UpdateText(p) ==
    \E inventory_name \in TextNameInputs, description \in TextDescInputs :
        UpdateApplyWith(p, inventory_name, description)

NextText ==
    \/ Tick
    \/ \E p \in Procs : RegisterUpload(p)
    \/ \E p \in Procs : RegisterText(p)
    \/ \E p \in Procs : GetItem(p)
    \/ \E p \in Procs : UpdateSelect(p)
    \/ \E p \in Procs : UpdateText(p)
    \/ \E p \in Procs : DeleteSelect(p)
    \/ \E p \in Procs : DeleteUnlink(p)
    \/ \E p \in Procs : DeleteRow(p)
    \/ \E p \in Procs : Finish(p)

SpecText == Init /\ [][NextText]_vars

(***************************************************************************)
(* Properties.                                                             *)
(***************************************************************************)
Done(p, op) == req[p].pc = "done" /\ req[p].op = op
Referenced(f) == \E i \in DOMAIN table : table[i].photo = f
\* The files that the step removes from the uploads directory.
Removed == DOMAIN files \ DOMAIN files'
\* Request p of kind op runs its synchronous file clean-up in this step.
CleansUp(p, op) ==
    req[p].op = op /\ req[p].pc = "unlink" /\ req'[p].pc # "unlink"

\* C1: invariant I1 -- in every reachable state every row whose photo column
\* is non-null names a file that exists in the uploads directory.
NoDanglingReference ==
    \A i \in DOMAIN table :
        table[i].photo # Null => ExistsSync(table[i].photo)

\* C2: ReplaceAsset never removes the previous file while the record still
\* references it: a previous file removed by a step of PUT
\* /inventory/:id/photo is no longer the photo of the request's record.
ReplaceDeletesAfterSwap ==
    [][\A p \in Procs : CleansUp(p, "putPhoto") =>
          \A f \in Removed \ {req[p].file} :
              ~(req[p].id \in DOMAIN table /\ table[req[p].id].photo = f)]_vars

\* C3: when the new file has been stored and the UPDATE of photo fails, and
\* no other request on that id interferes, the record still references its
\* original photo, the original file is still there, and the new file is
\* left unreferenced.
OrphanSafety ==
    \A p \in Procs :
        (Done(p, "putPhoto") /\ req[p].fault = "write" /\ req[p].quiet
            /\ req[p].file # req[p].old) =>
            /\ req[p].id \in DOMAIN table
            /\ table[req[p].id].photo = req[p].old
            /\ req[p].old # Null => ExistsSync(req[p].old)

\* C4: DeleteRecord removes the row before the file: a file removed by a
\* step of DELETE /inventory/:id is referenced by no row a reader can find.
DeleteRemovesRowFirst ==
    [][\A p \in Procs : CleansUp(p, "delete") =>
          \A f \in Removed : ~Referenced(f)]_vars

\* C5: once two fault-free ReplaceAsset requests on the same existing record
\* have both completed, the record's photo is the file of the request whose
\* UPDATE ran last, that file exists, and the other request's file is not
\* referenced.
LastSwapWins ==
    \A p, q \in Procs :
        (/\ p # q
         /\ Done(p, "putPhoto") /\ req[p].status = 200 /\ req[p].body = "row"
         /\ Done(q, "putPhoto") /\ req[q].status = 200 /\ req[q].body = "row"
         /\ req[p].id = req[q].id /\ req[p].id \in DOMAIN table
         /\ req[p].last) =>
            /\ table[req[p].id].photo = req[p].file
            /\ ExistsSync(req[p].file)
            /\ ~Referenced(req[q].file)

\* C6: after ReplaceAsset(id, B) has answered 200 on a record whose previous
\* photo was A, with no other request on that id, FetchAsset(id) returns B
\* and no row references A.
ReplaceThenFetch ==
    \A p \in Procs :
        (Done(p, "putPhoto") /\ req[p].status = 200 /\ req[p].body = "row"
            /\ req[p].quiet) =>
            /\ FetchAsset(req[p].id).status = 200
            /\ FetchAsset(req[p].id).data = req[p].data
            /\ req[p].old # Null => ~Referenced(req[p].old)

\* C7: after a successful create with an attached image, and with no update,
\* replace or delete of the created id since, FetchAsset of that id returns
\* exactly the bytes submitted.
CreateThenFetch ==
    \A p \in Procs :
        (Done(p, "register") /\ req[p].status = 201 /\ req[p].file # Null
            /\ req[p].quiet) =>
            /\ FetchAsset(req[p].id).status = 200
            /\ FetchAsset(req[p].id).data = req[p].data

\* The record change of request p is in the table.
Committed(p) ==
    IF req[p].op = "delete"
    THEN req[p].id \notin DOMAIN table
    ELSE req[p].id \in DOMAIN table /\ table[req[p].id].photo = req[p].file

\* C8: when deleting the previous file fails during ReplaceAsset or
\* DeleteRecord, the request is still answered as successful and, when no
\* other request on that id interferes, its record change is committed.
CleanupFailureIsSuccess ==
    \A p \in Procs :
        (req[p].pc = "done" /\ req[p].op \in {"putPhoto", "delete"}
            /\ req[p].fault = "unlink") =>
            /\ req[p].status = 200
            /\ req[p].quiet => Committed(p)

\* C9: GET /inventory/:id/photo on an existing record whose photo is null
\* answers 404 "Photo Not Found", which differs from the answer given for an
\* id that has no record.
NoPhotoDistinctFromNotFound ==
    \A p \in Procs :
        (Done(p, "getPhoto") /\ req[p].fault = "none" /\ req[p].found
            /\ req[p].old = Null) =>
            /\ req[p].status = 404
            /\ req[p].body = "Photo Not Found"
            /\ \A q \in Procs :
                 (Done(q, "getPhoto") /\ req[q].fault = "none" /\ ~req[q].found)
                    => <<req[q].status, req[q].body>> # <<req[p].status, req[p].body>>

\* A fetch of a record without photo and a fetch of an absent id have both
\* been answered.
NoPhotoAndNotFoundAnswered ==
    \E p, q \in Procs :
        /\ Done(p, "getPhoto") /\ req[p].fault = "none" /\ req[p].found
        /\ req[p].old = Null
        /\ Done(q, "getPhoto") /\ req[q].fault = "none" /\ ~req[q].found

\* C10: a fetch that finds a non-null photo whose file is missing is answered
\* differently from a fetch of a record that has no photo.
DanglingReportedDistinctly ==
    \A p \in Procs :
        (Done(p, "getPhoto") /\ req[p].found /\ req[p].old # Null
            /\ req[p].status # 200 /\ req[p].fault = "none") =>
            <<req[p].status, req[p].body>> # <<404, NoPhotoBody>>

\* C11: PUT /inventory/:id and PUT /inventory/:id/photo answer 200 only
\* together with the record as it stands after their write: a 200 answer
\* carries the row returned by the UPDATE, also when a DELETE removed the row
\* between the handler's SELECT and its UPDATE.
OkCarriesRecord ==
    \A p \in Procs :
        (req[p].pc = "done" /\ req[p].op \in {"update", "putPhoto"}
            /\ req[p].status = 200) =>
            req[p].body = "row"

\* Request p's UPDATE of the text fields runs in this step, finds its row and
\* is answered 200 with it.
UpdateSucceeds(p) ==
    /\ req[p].op = "update" /\ req[p].pc = "update"
    /\ req'[p].pc = "done" /\ req'[p].status = 200 /\ req'[p].body = "row"

\* C12: a PUT /inventory/:id on an existing record that supplies a name and
\* omits the description leaves the stored description as it was, and one
\* that supplies a description and omits the name leaves the stored name as
\* it was; the row a following SELECT of that id reads has the old value.
PartialUpdateKeepsOmitted ==
    [][\A p \in Procs : UpdateSucceeds(p) =>
          LET id == req[p].id IN
          /\ id \in DOMAIN table /\ id \in DOMAIN table'
          /\ (req'[p].name # Absent /\ req'[p].desc = Absent) =>
                table'[id].description = table[id].description
          /\ (req'[p].desc # Absent /\ req'[p].name = Absent) =>
                table'[id].name = table[id].name]_vars

\* An update that supplied a new name and no description has been answered
\* 200, and the row has the new name and still has its description.
NameUpdatedDescriptionKept ==
    \E p \in Procs :
        /\ Done(p, "update") /\ req[p].status = 200 /\ req[p].body = "row"
        /\ req[p].name = "Y" /\ req[p].desc = Absent
        /\ req[p].id \in DOMAIN table
        /\ table[req[p].id].name = "Y"
        /\ table[req[p].id].description = "d"

\* C13: after a PUT /inventory/:id on an existing record has answered 200
\* with the row, and no other request has worked on that id, the description
\* the request supplied, the empty string included, is the stored
\* description.
ProvidedDescriptionOverwrites ==
    \A p \in Procs :
        (Done(p, "update") /\ req[p].status = 200 /\ req[p].body = "row"
            /\ req[p].quiet /\ req[p].id \in DOMAIN table
            /\ req[p].desc # Absent) =>
            table[req[p].id].description = req[p].desc

\* A DELETE /inventory/i has answered 200: the serial column has handed out i
\* and DeleteRow, the only step that removes a row, has removed row i in the
\* step in which it answered.
Deleted(i) == i < nextId /\ i \notin DOMAIN table

\* C14: after a DELETE /inventory/:id has answered 200, every later DELETE of
\* that id whose SELECT is executed is answered 404 "Not Found" at once, not
\* 500, and changes neither the table nor the uploads directory.
DeleteTwiceNotFound ==
    [][\A p \in Procs :
          (/\ req[p].pc = "idle" /\ req'[p].op = "delete"
           /\ Deleted(req'[p].id) /\ req'[p].fault = "none") =>
              /\ req'[p].pc = "done"
              /\ req'[p].status = 404 /\ req'[p].body = NotFoundBody
              /\ table' = table /\ files' = files]_vars

\* One DELETE of an id has answered 200 and another DELETE of the same id,
\* which arrived after every step of the first, has answered 404.
DeletedTwice ==
    \E p, q \in Procs :
        /\ p # q /\ req[p].id = req[q].id /\ Deleted(req[p].id)
        /\ Done(q, "delete") /\ req[q].status = 200
        /\ Done(p, "delete") /\ req[p].status = 404 /\ req[p].fault = "none"
        /\ req[p].quiet

\* C15: a POST /register whose inventory_name is missing or empty is answered
\* 400 and inserts no row, and every step of a register or update request
\* leaves in every row of the table, empty at the start, a non-empty name.
NameNeverEmpty ==
    [][/\ \A i \in DOMAIN table' : table'[i].name \notin {"", SqlNull, Absent}
       /\ \A p \in Procs : (req[p].pc = "insert" /\ req'[p].pc # "insert") =>
            \A inventory_name \in {"", Absent}, description \in TextDescInputs :
                RegisterInsertWith(p, inventory_name, description) =>
                    /\ req'[p].pc = "done" /\ req'[p].status = 400
                    /\ table' = table /\ nextId' = nextId]_vars

\* A register without a usable name has been answered 400 while an update
\* that supplied the empty name has been answered 200 on a row that still
\* has its name.
EmptyNamesRefused ==
    \E p, q \in Procs :
        /\ Done(p, "register") /\ req[p].status = 400
        /\ Done(q, "update") /\ req[q].status = 200 /\ req[q].body = "row"
        /\ req[q].name = "" /\ req[q].id \in DOMAIN table
        /\ table[req[q].id].name \in TextNames

\* C16: invariant I2 -- when a PUT /inventory/:id/photo or a DELETE
\* /inventory/:id that met no fault and overlapped no other request on its id
\* answers 200 on a record whose photo was A, the file A is not in the
\* uploads directory.
PreviousAssetReclaimed ==
    [][\A p \in Procs :
          (/\ req[p].pc # "done" /\ req'[p].pc = "done"
           /\ req'[p].op \in {"putPhoto", "delete"}
           /\ req'[p].status = 200 /\ req'[p].fault = "none" /\ req'[p].quiet
           /\ req'[p].old # Null) =>
              req'[p].old \notin DOMAIN files']_vars

\* Request p's upload middleware stores its attachment in this step.
Uploads(p) ==
    /\ req[p].pc = "idle" /\ req'[p].op \in {"register", "putPhoto"}
    /\ req'[p].file # Null

\* C17: every file written by the upload of POST /register or of PUT
\* /inventory/:id/photo is stored under a name that no file in the uploads
\* directory has, also when two uploads with the same original name arrive at
\* the same clock value, and no two rows hold the same photo name.
UploadsNeverOverwrite ==
    [][/\ \A p \in Procs : Uploads(p) => req'[p].file \notin DOMAIN files
       /\ \A i, j \in DOMAIN table' :
            (i # j /\ table'[i].photo # Null) => table'[i].photo # table'[j].photo]_vars

\* Request p, a PUT /inventory/:id, takes a step.
UpdateSteps(p) ==
    \/ req[p].op = "update" /\ req[p].pc = "update" /\ req'[p].pc = "done"
    \/ req[p].pc = "idle" /\ req'[p].op = "update"

\* C18: every step of a PUT /inventory/:id, whatever its answer, leaves the
\* photo and created_at of every row and the whole uploads directory as they
\* were, and no step of any request changes the created_at of a row that
\* exists before and after it.
UpdateLeavesAssetsAlone ==
    [][/\ \A p \in Procs : UpdateSteps(p) =>
            /\ files' = files
            /\ DOMAIN table' = DOMAIN table
            /\ \A i \in DOMAIN table :
                 /\ table'[i].photo = table[i].photo
                 /\ table'[i].created_at = table[i].created_at
       /\ \A i \in DOMAIN table \cap DOMAIN table' :
            table'[i].created_at = table[i].created_at]_vars

\* An update has changed the name of a row that has a photo and was created
\* at an earlier clock value: the row still has both.
UpdatedRowKeepsPhotoAndDate ==
    \E p \in Procs :
        /\ Done(p, "update") /\ req[p].status = 200 /\ req[p].body = "row"
        /\ req[p].name # Absent /\ req[p].id \in DOMAIN table
        /\ table[req[p].id].photo # Null
        /\ ExistsSync(table[req[p].id].photo)
        /\ table[req[p].id].created_at < clock

\* C19: when a request is answered 400 or 404, the answering step changes
\* neither the table nor the uploads directory, and the directory holds no
\* file that the request's own upload added to it.
RejectedChangesNothing ==
    [][\A p \in Procs :
          (req[p].pc # "done" /\ req'[p].pc = "done"
              /\ req'[p].status \in {400, 404}) =>
              /\ table' = table
              /\ files' = files
              /\ ~(req'[p].added /\ req'[p].file \in DOMAIN files')]_vars

====
